---- MODULE Spec2Model ----
(***************************************************************************)
(* Model of src/app.py: the Taiwan stock screener.                         *)
(*                                                                         *)
(*   calculate_indicators  (app.py 31-51)   rolling means, Bollinger bands *)
(*                                          and MACD of the Close column   *)
(*   check_strategies      (app.py 54-74)   rules S8 and S3 on the last    *)
(*                                          three rows                     *)
(*   process_stock         (app.py 77-94)   one symbol's task              *)
(*   the scan              (app.py 111-129) fan-out over a pool of 10      *)
(*                                          workers, fan-in by the script  *)
(*                                                                         *)
(* Numbers.  pandas computes in float64; the model computes the same       *)
(* formulas exactly.  A number is <<w, n, d>> and stands for w + n/d with  *)
(* 0 <= n < d and gcd(n, d) = 1 (a mixed number, so that the integer part  *)
(* of a price does not eat the 32-bit range of the fraction).  NaN is      *)
(* <<0, 0, 0>>.  A Bollinger band is mid + k * sqrt(var), kept as the      *)
(* record [mid, k, var].                                                   *)
(***************************************************************************)
EXTENDS Integers, Sequences, FiniteSets, TLC

----------------------------------------------------------------------------
(* Exact arithmetic *)

RECURSIVE GCD(_, _)
GCD(a, b) == IF b = 0 THEN a ELSE GCD(b, a % b)

LCM(a, b) == (a \div GCD(a, b)) * b

NaN == <<0, 0, 0>>

IsNaN(x) == x[3] = 0

\* w + n/d for any integers w, n and d > 0, brought to normal form
Norm(w, n, d) ==
    LET c == n \div d
        r == n % d
        g == GCD(r, d)
    IN  <<w + c, r \div g, d \div g>>

FromInt(x) == <<x, 0, 1>>

\* a / b for integers a and b > 0
Frac(a, b) == Norm(0, a, b)

RAdd(x, y) ==
    LET L == LCM(x[3], y[3])
    IN  Norm(x[1] + y[1], x[2] * (L \div x[3]) + y[2] * (L \div y[3]), L)

RSub(x, y) ==
    LET L == LCM(x[3], y[3])
    IN  Norm(x[1] - y[1], x[2] * (L \div x[3]) - y[2] * (L \div y[3]), L)

\* x * p / q for integers p >= 0 and q > 0
RScale(x, p, q) ==
    LET t == Norm(x[1] * p, x[2] * p, x[3])
    IN  Norm(t[1] \div q, (t[1] % q) * t[3] + t[2], t[3] * q)

\* float comparison: anything compared with NaN is False
RGt(x, y) ==
    /\ ~IsNaN(x)
    /\ ~IsNaN(y)
    /\ LET L == LCM(x[3], y[3])
       IN  \/ x[1] > y[1]
           \/ /\ x[1] = y[1]
              /\ x[2] * (L \div x[3]) > y[2] * (L \div y[3])

\* x^2 compared with v for x >= 0, both brought to one denominator
SqCmp(x, v) ==
    LET xn == x[1] * x[3] + x[2]
        vn == v[1] * v[3] + v[2]
        L  == LCM(x[3] * x[3], v[3])
    IN  xn * xn * (L \div (x[3] * x[3])) - vn * (L \div v[3])

\* a band value mid + k * sqrt(var), k = 2 or -2 (app.py 41-42)
Band(mid, k, var) == [mid |-> mid, k |-> k, var |-> var]

BandIsNaN(b) == IsNaN(b.mid) \/ IsNaN(b.var)

\* c > mid + k * sqrt(var)  for an integer c
GtBand(c, b) ==
    /\ ~BandIsNaN(b)
    /\ LET e == RSub(FromInt(c), b.mid)
           m == RSub(b.mid, FromInt(c))
           v == RScale(b.var, b.k * b.k, 1)
       IN  IF b.k >= 0
             THEN RGt(e, FromInt(0)) /\ SqCmp(e, v) > 0
             ELSE \/ RGt(e, FromInt(0))
                  \/ e = FromInt(0) /\ RGt(v, FromInt(0))
                  \/ RGt(m, FromInt(0)) /\ SqCmp(m, v) < 0

LeBand(c, b) == ~BandIsNaN(b) /\ ~GtBand(c, b)

----------------------------------------------------------------------------
(* DataFrames.  A frame is [index |-> number of rows, cols |-> column name *)
(* to the sequence of its values].  Only the Close column of the bars is   *)
(* modelled: no code of the scan reads Open, High, Low or Volume.          *)

\* app.py 32
MinBars == 35

\* app.py 81
MinFetchedBars == 35

len(df) == df.index

\* df[name] = values
Assign(df, name, values) ==
    [index |-> df.index,
     cols  |-> [c \in DOMAIN df.cols \cup {name} |->
                   IF c = name THEN values ELSE df.cols[c]]]

\* df.iloc[k] for k < 0: the row counted from the end
iloc(df, k) == [c \in DOMAIN df.cols |-> df.cols[c][df.index + k + 1]]

RECURSIVE SumFrom(_, _, _)
SumFrom(xs, a, b) == IF a > b THEN 0 ELSE xs[a] + SumFrom(xs, a + 1, b)

RECURSIVE SumSqFrom(_, _, _)
SumSqFrom(xs, a, b) ==
    IF a > b THEN 0 ELSE xs[a] * xs[a] + SumSqFrom(xs, a + 1, b)

\* Series.rolling(window, min_periods=1).mean(): the mean of the bars so far
rolling_mean_min_periods_1(xs, window) ==
    [t \in 1..Len(xs) |->
        IF t < window THEN Frac(SumFrom(xs, 1, t), t)
        ELSE Frac(SumFrom(xs, t - window + 1, t), window)]

\* Series.rolling(window).mean(): NaN until the window is full
rolling_mean(xs, window) ==
    [t \in 1..Len(xs) |->
        IF t < window THEN NaN
        ELSE Frac(SumFrom(xs, t - window + 1, t), window)]

\* Series.rolling(window).std(), squared: the sample variance (ddof = 1),
\* NaN until the window is full
rolling_var(xs, window) ==
    [t \in 1..Len(xs) |->
        IF t < window THEN NaN
        ELSE LET a == t - window + 1
                 s == SumFrom(xs, a, t)
                 q == SumSqFrom(xs, a, t)
             IN  Frac(window * q - s * s, window * (window - 1))]

\* Series.ewm(span, adjust=False).mean():
\*   y[0] = x[0],  y[t] = (1 - alpha) * y[t-1] + alpha * x[t],
\*   alpha = 2 / (span + 1)
RECURSIVE EwmFrom(_, _, _)
EwmFrom(xs, span, acc) ==
    IF Len(acc) = Len(xs) THEN acc
    ELSE LET t == Len(acc) + 1
             y == IF t = 1 THEN xs[1]
                  ELSE RAdd(RScale(acc[t - 1], span - 1, span + 1),
                            RScale(xs[t], 2, span + 1))
         IN  EwmFrom(xs, span, Append(acc, y))

ewm_mean(xs, span) == EwmFrom(xs, span, <<>>)

None == <<>>

\* the frame df with the seven columns of app.py 37-50 assigned
with_indicator_columns(df) ==
    LET Close  == df.cols.Close
        n      == len(df)
        SMA15  == rolling_mean(Close, 15)
        SMA20  == rolling_mean(Close, 20)
        std    == rolling_var(Close, 20)
        Upper  == [t \in 1..n |-> Band(SMA20[t], 2, std[t])]
        Lower  == [t \in 1..n |-> Band(SMA20[t], -2, std[t])]
        exp12  == ewm_mean([t \in 1..n |-> FromInt(Close[t])], 12)
        exp26  == ewm_mean([t \in 1..n |-> FromInt(Close[t])], 26)
        MACD   == [t \in 1..n |-> RSub(exp12[t], exp26[t])]
        Signal == ewm_mean(MACD, 9)
        Hist   == [t \in 1..n |-> RSub(MACD[t], Signal[t])]
        d1 == Assign(df, "SMA15", SMA15)
        d2 == Assign(d1, "SMA20", SMA20)
        d3 == Assign(d2, "Upper", Upper)
        d4 == Assign(d3, "Lower", Lower)
        d5 == Assign(d4, "MACD", MACD)
        d6 == Assign(d5, "Signal", Signal)
    IN  Assign(d6, "Hist", Hist)

\* calculate_indicators with the length test after the assignments: the
\* columns are assigned to a short frame too, then None is returned
calculate_indicators_late_check(df) ==
    IF len(df) < MinBars
      THEN [ret |-> None, df |-> with_indicator_columns(df)]
      ELSE [ret |-> <<with_indicator_columns(df)>>,
            df  |-> with_indicator_columns(df)]

\* calculate_indicators working on df.copy(): the frame it was given keeps
\* its columns, the returned frame is another one
calculate_indicators_copy(df) ==
    IF len(df) < MinBars
      THEN [ret |-> None, df |-> df]
      ELSE [ret |-> <<with_indicator_columns(df)>>, df |-> df]

\* app.py 31-51.  The function assigns the new columns to the frame it was
\* given and returns that same frame: ret is the returned value (None or
\* the frame), df the state of the argument after the call.
calculate_indicators(df) ==
    IF len(df) < MinBars
      THEN [ret |-> None, df |-> df]
      ELSE
        LET Close  == df.cols.Close
            n      == len(df)
            SMA15  == rolling_mean(Close, 15)
            SMA20  == rolling_mean(Close, 20)
            std    == rolling_var(Close, 20)
            Upper  == [t \in 1..n |-> Band(SMA20[t], 2, std[t])]
            Lower  == [t \in 1..n |-> Band(SMA20[t], -2, std[t])]
            exp12  == ewm_mean([t \in 1..n |-> FromInt(Close[t])], 12)
            exp26  == ewm_mean([t \in 1..n |-> FromInt(Close[t])], 26)
            MACD   == [t \in 1..n |-> RSub(exp12[t], exp26[t])]
            Signal == ewm_mean(MACD, 9)
            Hist   == [t \in 1..n |-> RSub(MACD[t], Signal[t])]
            d1 == Assign(df, "SMA15", SMA15)
            d2 == Assign(d1, "SMA20", SMA20)
            d3 == Assign(d2, "Upper", Upper)
            d4 == Assign(d3, "Lower", Lower)
            d5 == Assign(d4, "MACD", MACD)
            d6 == Assign(d5, "Signal", Signal)
            d7 == Assign(d6, "Hist", Hist)
        IN  [ret |-> <<d7>>, df |-> d7]

\* the labels of app.py 65 and 70 (in the source: Chinese text)
LabelS8 == "MACD gradual ascent"
LabelS3 == "Bollinger upper band breakout"

InList(x, list) == \E k \in 1..Len(list) : list[k] = x

\* S8 on the slope of MACD alone
CondS8_slope_only(last, prev, prev2) ==
    RGt(last.MACD, prev.MACD) /\ RGt(prev.MACD, prev2.MACD)

\* app.py 60-64
CondS8(last, prev, prev2) ==
    /\ RGt(last.MACD, prev.MACD) /\ RGt(prev.MACD, prev2.MACD)
    /\ RGt(last.MACD, last.Signal)
    /\ RGt(last.Hist, FromInt(0))

\* the close of the last bar is above its band, whatever the bar before
CondS3_sustained(last, prev) ==
    GtBand(last.Close, last.Upper)

\* app.py 69
CondS3(last, prev) ==
    /\ GtBand(last.Close, last.Upper)
    /\ LeBand(prev.Close, prev.Upper)

\* check_strategies going through the requested identifiers in the order
\* of the request, appending the label of each one whose rule holds
check_strategies_in_request_order(df, strategies_) ==
    LET last  == iloc(df, -1)
        prev  == iloc(df, -2)
        prev2 == iloc(df, -3)
        hit(s) == \/ s = "S8" /\ CondS8(last, prev, prev2)
                  \/ s = "S3" /\ CondS3(last, prev)
        hits  == SelectSeq(strategies_, hit)
    IN  [k \in 1..Len(hits) |-> IF hits[k] = "S8" THEN LabelS8 ELSE LabelS3]

\* check_strategies evaluating every rule, requested or not
check_strategies_all(df, strategies_) ==
    LET last  == iloc(df, -1)
        prev  == iloc(df, -2)
        prev2 == iloc(df, -3)
        r0 == <<>>
        r1 == IF CondS8(last, prev, prev2)
                THEN Append(r0, LabelS8) ELSE r0
        r2 == IF CondS3(last, prev)
                THEN Append(r1, LabelS3) ELSE r1
    IN  r2

\* app.py 54-74
check_strategies(df, strategies_) ==
    LET last  == iloc(df, -1)
        prev  == iloc(df, -2)
        prev2 == iloc(df, -3)
        r0 == <<>>
        r1 == IF InList("S8", strategies_) /\ CondS8(last, prev, prev2)
                THEN Append(r0, LabelS8) ELSE r0
        r2 == IF InList("S3", strategies_) /\ CondS3(last, prev)
                THEN Append(r1, LabelS3) ELSE r1
    IN  r2

----------------------------------------------------------------------------
(* The price history the provider returns.  yf.download either raises or   *)
(* returns a frame: [raises |-> BOOLEAN, data |-> frame].                  *)

NoData == [index |-> 0, cols |-> [c \in {} |-> <<>>]]

FetchRaises == [raises |-> TRUE, data |-> NoData]

Returns(df) == [raises |-> FALSE, data |-> df]

\* a frame of n bars whose closes are base except for the last Len(tail)
Bars(n, base, tail) ==
    [index |-> n,
     cols  |-> [Close |-> [t \in 1..n |->
                   IF t <= n - Len(tail) THEN base
                   ELSE tail[t - (n - Len(tail))]]]]

\* a frame of n bars that has no Close column
NoCloseBars(n) == [index |-> n, cols |-> [Volume |-> [t \in 1..n |-> 0]]]

\* the last three closes of the frames of MinBars bars the provider returns,
\* every earlier close being 250:
\*   flat; MACD rising below its signal; S8 alone; S3 alone; S8 and S3;
\*   S8 at a close of 500; MACD above its signal and falling
Tails ==
    { <<250, 250, 250>>, <<125, 250, 250>>, <<250, 375, 375>>,
      <<250, 250, 375>>, <<125, 250, 375>>, <<250, 375, 500>>,
      <<250, 375, 250>> }

FullFrames == { Bars(MinBars, 250, tail) : tail \in Tails }

EmptyFrame == Bars(0, 250, <<>>)

ShortFrame == Bars(MinBars - 1, 250, <<250, 375, 375>>)

Outcomes ==
    { FetchRaises, Returns(EmptyFrame), Returns(ShortFrame),
      Returns(NoCloseBars(MinBars)) }
    \cup { Returns(df) : df \in FullFrames }

\* calculate_indicators of the frames the provider returns, evaluated once
IndicatorCache == [df \in FullFrames |-> calculate_indicators(df)]

CallCalculateIndicators(df) ==
    IF df \in DOMAIN IndicatorCache
      THEN IndicatorCache[df]
      ELSE calculate_indicators(df)

----------------------------------------------------------------------------
(* process_stock, app.py 77-94.  fetch is what yf.download does for the    *)
(* symbol.  The value is [exc, ret, data]: exc says that an exception      *)
(* leaves the function, ret is the returned value (None or <<record>>),    *)
(* data the state of the fetched frame when the function is left.          *)

Raise(data) == [exc |-> TRUE, ret |-> None, data |-> data]

Return(value, data) == [exc |-> FALSE, ret |-> value, data |-> data]

empty(df) == df.index = 0 \/ DOMAIN df.cols = {}

\* app.py 88-91, 94: df is what calculate_indicators returned
process_stock_match(stock_str, df, data, strategies_, current_price) ==
    IF df = None THEN Raise(data)
    ELSE IF check_strategies(df[1], strategies_) # <<>>
      THEN Return(<<[symbol  |-> stock_str,
                     df      |-> df[1],
                     matches |-> check_strategies(df[1], strategies_),
                     price   |-> current_price]>>, data)
      ELSE Return(None, data)

\* app.py 87: ci is the outcome of calculate_indicators(data)
process_stock_indicators(stock_str, ci, strategies_, current_price) ==
    process_stock_match(stock_str, ci.ret, ci.df, strategies_, current_price)

\* the price range check with exclusive bounds
process_stock_price_strict(stock_str, data, strategies_, min_p, max_p, current_price) ==
    IF ~(min_p < current_price /\ current_price < max_p)
      THEN Return(None, data)
      ELSE process_stock_indicators(stock_str, CallCalculateIndicators(data),
                                    strategies_, current_price)

\* app.py 84-85: the price range check
process_stock_price(stock_str, data, strategies_, min_p, max_p, current_price) ==
    IF ~(min_p <= current_price /\ current_price <= max_p)
      THEN Return(None, data)
      ELSE process_stock_indicators(stock_str, CallCalculateIndicators(data),
                                    strategies_, current_price)

\* app.py 79-91, the body of the try
process_stock_try(stock_str, fetch, strategies_, min_p, max_p) ==
    IF fetch.raises THEN Raise(NoData)
    ELSE IF empty(fetch.data) \/ len(fetch.data) < MinFetchedBars
      THEN Return(None, fetch.data)
    ELSE IF "Close" \notin DOMAIN fetch.data.cols THEN Raise(fetch.data)
    ELSE process_stock_price(stock_str, fetch.data, strategies_, min_p, max_p,
                             fetch.data.cols.Close[len(fetch.data)])

\* no except clause: the exception leaves process_stock
except_none(r) == r

\* the bare except of app.py 92-93 turns every exception into None
except_all(r) == IF r.exc THEN Return(None, r.data) ELSE r

\* app.py 77-94
process_stock(stock_str, fetch, strategies_, min_p, max_p) ==
    except_all(process_stock_try(stock_str, fetch, strategies_, min_p, max_p))

----------------------------------------------------------------------------
(* The scan, app.py 97-129 *)

\* ThreadPoolExecutor(max_workers=10), app.py 121
max_workers == 10

\* the largest universe subset of Spec
MaxSymbols == 2

\* the universe subsets of SpecPool hold max_workers + 1 up to
\* max_workers + PoolExtra symbols
PoolExtra == 1

\* st.sidebar.slider("...", 0, 1000, (10, 500)), app.py 101: the default and
\* a narrower range
PriceRanges == { <<10, 500>>, <<250, 375>> }

\* app.py 104-109: the lists the two checkboxes build
StrategyLists == { <<>>, <<"S8">>, <<"S3">>, <<"S8", "S3">> }

VARIABLES
    stock_targets,  \* app.py 114: the symbols to scan, in universe order
    strategies,     \* app.py 107-109
    price_range,    \* app.py 101
    provider,       \* what yf.download can do in this run (external)
    pc,             \* where the script is: "idle", "submit", "collect",
                    \* "done", or "raised" when an exception left the scan
    futures,        \* app.py 122: the futures, in submission order
    fetched,        \* per task: <<>> or <<what yf.download did>>
    frames,         \* per task: <<>> or <<the fetched frame at task end>>
    i,              \* app.py 123: the futures collected so far
    results,        \* app.py 118
    progress,       \* app.py 126: the count the progress bar shows
    reported,       \* app.py 126-127: every count reported, in order
    completed,      \* history: the tasks that returned a record, in the
                    \* order in which they ended
    series,         \* direct calls: the frame the provider produced
    data,           \* direct calls: that frame object as the calls left it
    trace           \* direct calls: [fn, args, ret] of every call, in order

vars == <<stock_targets, strategies, price_range, provider, pc, futures,
          fetched, frames, i, results, progress, reported, completed,
          series, data, trace>>

\* what no step of a scan changes: the sidebar, the symbols, the provider,
\* and the variables of the direct calls
config == <<stock_targets, strategies, price_range, provider,
            series, data, trace>>

N == Len(stock_targets)

\* executor.submit(process_stock, s, ...): the future of the task for s
Pending(s) == [stock |-> s, state |-> "pending", exc |-> FALSE,
               result |-> None]

Universe(n) == [k \in 1..n |-> k]

InitScan ==
    /\ pc = "idle"
    /\ futures = <<>>
    /\ fetched = [k \in 1..N |-> <<>>]
    /\ frames = [k \in 1..N |-> <<>>]
    /\ i = 0
    /\ results = <<>>
    /\ progress = 0
    /\ reported = <<>>
    /\ completed = <<>>

\* a run of the script makes no direct call
NoDirectCall ==
    /\ series = NoData
    /\ data = NoData
    /\ trace = <<>>

Init ==
    /\ stock_targets \in { Universe(n) : n \in 0..MaxSymbols }
    /\ strategies \in StrategyLists
    /\ price_range \in PriceRanges
    /\ provider = Outcomes
    /\ InitScan
    /\ NoDirectCall

\* universes larger than the pool, with a provider that is down
InitPool ==
    /\ stock_targets \in
         { Universe(n) : n \in (max_workers + 1)..(max_workers + PoolExtra) }
    /\ strategies = <<"S8">>
    /\ price_range = <<10, 500>>
    /\ provider = { FetchRaises }
    /\ InitScan
    /\ NoDirectCall

\* app.py 111-118: the button is pressed
StartScan ==
    /\ pc = "idle"
    /\ pc' = "submit"
    /\ results' = <<>>
    /\ progress' = 0
    /\ UNCHANGED <<config, futures, fetched, frames, i, reported, completed>>

\* app.py 122: one executor.submit of the list comprehension
Submit ==
    /\ pc = "submit"
    /\ Len(futures) < N
    /\ futures' = Append(futures, Pending(stock_targets[Len(futures) + 1]))
    /\ UNCHANGED <<config, pc, fetched, frames, i, results, progress,
                   reported, completed>>

\* app.py 122-123: every symbol is submitted, the loop begins
EnterLoop ==
    /\ pc = "submit"
    /\ Len(futures) = N
    /\ pc' = "collect"
    /\ i' = 0
    /\ UNCHANGED <<config, futures, fetched, frames, results, progress,
                   reported, completed>>

Running == { k \in 1..Len(futures) : futures[k].state = "running" }

\* a pool that starts a thread for every queued task
TaskStart_unbounded(k) ==
    /\ k \in 1..Len(futures)
    /\ futures[k].state = "pending"
    /\ \A j \in 1..(k - 1) : futures[j].state # "pending"
    /\ futures' = [futures EXCEPT ![k].state = "running"]
    /\ UNCHANGED <<config, pc, fetched, frames, i, results, progress,
                   reported, completed>>

\* a pool whose threads are never given a second task
TaskStart_once_per_thread(k) ==
    /\ k \in 1..Len(futures)
    /\ futures[k].state = "pending"
    /\ \A j \in 1..(k - 1) : futures[j].state # "pending"
    /\ k <= max_workers
    /\ futures' = [futures EXCEPT ![k].state = "running"]
    /\ UNCHANGED <<config, pc, fetched, frames, i, results, progress,
                   reported, completed>>

\* a worker thread takes the oldest queued task and calls yf.download
\* (app.py 80); the pool has at most max_workers threads
TaskStart(k) ==
    /\ k \in 1..Len(futures)
    /\ futures[k].state = "pending"
    /\ \A j \in 1..(k - 1) : futures[j].state # "pending"
    /\ Cardinality(Running) < max_workers
    /\ futures' = [futures EXCEPT ![k].state = "running"]
    /\ UNCHANGED <<config, pc, fetched, frames, i, results, progress,
                   reported, completed>>

\* the task of future k ends: r is what process_stock did with the fetch
TaskEnd(k, fetch, r) ==
    /\ futures' = [futures EXCEPT ![k] =
          [stock |-> futures[k].stock, state |-> "finished",
           exc |-> r.exc, result |-> r.ret]]
    /\ fetched' = [fetched EXCEPT ![k] = <<fetch>>]
    /\ frames' = [frames EXCEPT ![k] = <<r.data>>]
    /\ completed' = IF r.ret # None THEN Append(completed, k)
                    ELSE completed

\* a task that appends its record to results itself
TaskFinish_appends(k) ==
    /\ k \in 1..Len(futures)
    /\ futures[k].state = "running"
    /\ \E fetch \in provider :
         /\ TaskEnd(k, fetch,
                    process_stock(futures[k].stock, fetch, strategies,
                                  price_range[1], price_range[2]))
         /\ results' = results \o
               process_stock(futures[k].stock, fetch, strategies,
                             price_range[1], price_range[2]).ret
    /\ UNCHANGED <<config, pc, i, progress, reported>>

\* yf.download returns or raises, and process_stock runs to its end
\* (app.py 80-94); the future holds what it returned or raised
TaskFinish(k) ==
    /\ k \in 1..Len(futures)
    /\ futures[k].state = "running"
    /\ \E fetch \in provider :
         TaskEnd(k, fetch,
                 process_stock(futures[k].stock, fetch, strategies,
                               price_range[1], price_range[2]))
    /\ UNCHANGED <<config, pc, i, results, progress, reported>>

\* Collect with the progress lines under "if res:"
Collect_progress_on_match ==
    /\ pc = "collect"
    /\ i < N
    /\ futures[i + 1].state = "finished"
    /\ IF futures[i + 1].exc
         THEN /\ pc' = "raised"
              /\ UNCHANGED <<i, results, progress, reported>>
         ELSE LET res == futures[i + 1].result IN
              /\ results' = IF res # None THEN Append(results, res[1])
                            ELSE results
              /\ progress' = IF res # None THEN i + 1 ELSE progress
              /\ reported' = IF res # None THEN Append(reported, i + 1)
                             ELSE reported
              /\ i' = i + 1
              /\ pc' = pc
    /\ UNCHANGED <<config, futures, fetched, frames, completed>>

\* Collect reporting len(results) in place of i + 1
Collect_counts_matches ==
    /\ pc = "collect"
    /\ i < N
    /\ futures[i + 1].state = "finished"
    /\ IF futures[i + 1].exc
         THEN /\ pc' = "raised"
              /\ UNCHANGED <<i, results, progress, reported>>
         ELSE LET res == futures[i + 1].result IN
              /\ results' = IF res # None THEN Append(results, res[1])
                            ELSE results
              /\ progress' = Len(results')
              /\ reported' = Append(reported, Len(results'))
              /\ i' = i + 1
              /\ pc' = pc
    /\ UNCHANGED <<config, futures, fetched, frames, completed>>

\* Collect reading the future without waiting for it: a future that has
\* not finished counts as one with no result
Collect_no_wait ==
    /\ pc = "collect"
    /\ i < N
    /\ IF futures[i + 1].exc
         THEN /\ pc' = "raised"
              /\ UNCHANGED <<i, results, progress, reported>>
         ELSE LET res == futures[i + 1].result IN
              /\ results' = IF res # None THEN Append(results, res[1])
                            ELSE results
              /\ progress' = i + 1
              /\ reported' = Append(reported, i + 1)
              /\ i' = i + 1
              /\ pc' = pc
    /\ UNCHANGED <<config, futures, fetched, frames, completed>>

\* Collect with results = [res] in place of results.append(res)
Collect_latest_only ==
    /\ pc = "collect"
    /\ i < N
    /\ futures[i + 1].state = "finished"
    /\ IF futures[i + 1].exc
         THEN /\ pc' = "raised"
              /\ UNCHANGED <<i, results, progress, reported>>
         ELSE LET res == futures[i + 1].result IN
              /\ results' = IF res # None THEN <<res[1]>> ELSE results
              /\ progress' = i + 1
              /\ reported' = Append(reported, i + 1)
              /\ i' = i + 1
              /\ pc' = pc
    /\ UNCHANGED <<config, futures, fetched, frames, completed>>

\* Collect with results.insert(0, res)
Collect_prepends ==
    /\ pc = "collect"
    /\ i < N
    /\ futures[i + 1].state = "finished"
    /\ IF futures[i + 1].exc
         THEN /\ pc' = "raised"
              /\ UNCHANGED <<i, results, progress, reported>>
         ELSE LET res == futures[i + 1].result IN
              /\ results' = IF res # None THEN <<res[1]>> \o results
                            ELSE results
              /\ progress' = i + 1
              /\ reported' = Append(reported, i + 1)
              /\ i' = i + 1
              /\ pc' = pc
    /\ UNCHANGED <<config, futures, fetched, frames, completed>>

\* app.py 123-127: one turn of the loop.  future.result() waits for the
\* future and raises what the task raised.
Collect ==
    /\ pc = "collect"
    /\ i < N
    /\ futures[i + 1].state = "finished"
    /\ IF futures[i + 1].exc
         THEN /\ pc' = "raised"
              /\ UNCHANGED <<i, results, progress, reported>>
         ELSE LET res == futures[i + 1].result IN
              /\ results' = IF res # None THEN Append(results, res[1])
                            ELSE results
              /\ progress' = i + 1
              /\ reported' = Append(reported, i + 1)
              /\ i' = i + 1
              /\ pc' = pc
    /\ UNCHANGED <<config, futures, fetched, frames, completed>>

\* app.py 127-129: the loop and the with block are left
ScanComplete ==
    /\ pc = "collect"
    /\ i = N
    /\ pc' = "done"
    /\ UNCHANGED <<config, futures, fetched, frames, i, results, progress,
                   reported, completed>>

Next ==
    \/ StartScan
    \/ Submit
    \/ EnterLoop
    \/ \E k \in 1..N : TaskStart(k)
    \/ \E k \in 1..N : TaskFinish(k)
    \/ Collect
    \/ ScanComplete

Spec == Init /\ [][Next]_vars

SpecPool == InitPool /\ [][Next]_vars

\* the positions a task can have in futures (MaxSymbols < max_workers)
TaskIds == 1..(max_workers + PoolExtra)

\* the threads are scheduled, and every call of yf.download ends
Fairness ==
    /\ WF_vars(Submit)
    /\ WF_vars(EnterLoop)
    /\ \A k \in TaskIds :
          WF_vars(TaskStart(k)) /\ WF_vars(TaskFinish(k))
    /\ WF_vars(Collect)
    /\ WF_vars(ScanComplete)

FairSpec == Spec /\ Fairness

FairSpecPool == SpecPool /\ Fairness

----------------------------------------------------------------------------
(* Direct calls of calculate_indicators, check_strategies and             *)
(* process_stock, app.py 31-94, on one frame of the provider.             *)

\* the frames of the direct calls hold up to MinBars + ExtraBars bars
ExtraBars == 2

\* the variables of a scan
scan == <<stock_targets, strategies, price_range, provider, pc, futures,
          fetched, frames, i, results, progress, reported, completed>>

\* the script is not run
NoScan ==
    /\ stock_targets = <<>>
    /\ strategies = <<>>
    /\ price_range = <<10, 500>>
    /\ provider = {}
    /\ InitScan

\* frames of every length from none to MinBars + ExtraBars bars
CallFrames ==
    { Bars(n, 250, <<>>) : n \in 0..2 }
    \cup { Bars(n, 250, tail) : n \in 3..(MinBars + ExtraBars), tail \in Tails }

\* strategies arguments: the lists of the checkboxes, the same identifiers
\* in the other order, and lists naming strategies app.py has no rule for
StrategyArgs ==
    { <<>>, <<"S8">>, <<"S3">>, <<"S8", "S3">>, <<"S3", "S8">>,
      <<"S1">>, <<"S1", "S8">>, <<"S3", "S5", "S8">> }

\* min_p, max_p arguments: ranges of the slider of app.py 101
PriceArgs == { <<10, 500>>, <<250, 375>>, <<500, 1000>> }

InitCalls ==
    /\ NoScan
    /\ series \in CallFrames
    /\ data = series
    /\ trace = <<>>

Called(fn, args, ret) == [fn |-> fn, args |-> args, ret |-> ret]

AfterCalculateIndicators(ci) ==
    /\ data' = ci.df
    /\ trace' = Append(trace, Called("calculate_indicators", <<>>, ci.ret))

\* calculate_indicators(data)
DirectCalculateIndicators ==
    /\ trace = <<>>
    /\ AfterCalculateIndicators(calculate_indicators(data))
    /\ UNCHANGED <<scan, series>>

\* check_strategies(df, strategies) on the frame calculate_indicators
\* returned, up to twice
DirectCheckStrategies(strategies_) ==
    /\ trace # <<>>
    /\ Len(trace) < 3
    /\ trace[1].fn = "calculate_indicators"
    /\ trace[1].ret # None
    /\ trace' = Append(trace, Called("check_strategies", <<strategies_>>,
                                     check_strategies(data, strategies_)))
    /\ UNCHANGED <<scan, series, data>>

AfterProcessStock(args, r) ==
    /\ data' = r.data
    /\ trace' = Append(trace, Called("process_stock", args,
                                     IF r.exc THEN "raised" ELSE r.ret))

\* process_stock(1, strategies, min_p, max_p) when yf.download returns data
DirectProcessStock(strategies_, range) ==
    /\ trace = <<>>
    /\ AfterProcessStock(<<strategies_, range[1], range[2]>>,
          process_stock(1, Returns(data), strategies_, range[1], range[2]))
    /\ UNCHANGED <<scan, series>>

NextCalls ==
    \/ DirectCalculateIndicators
    \/ \E strategies_ \in StrategyArgs : DirectCheckStrategies(strategies_)
    \/ \E strategies_ \in StrategyArgs, range \in PriceArgs :
          DirectProcessStock(strategies_, range)

SpecCalls == InitCalls /\ [][NextCalls]_vars

\* the scan of one symbol repeated bar after bar: yf.download returns the
\* history up to the latest bar, one bar more each time

\* the first n bars of a frame
head(df, n) ==
    [index |-> n,
     cols  |-> [c \in DOMAIN df.cols |-> [t \in 1..n |-> df.cols[c][t]]]]

\* histories of MinBars + ExtraBars bars whose last three closes vary
BarSeries ==
    { Bars(MinBars + ExtraBars, 250, tail) :
        tail \in [1..3 -> {125, 250, 375, 500}] }

InitBars ==
    /\ NoScan
    /\ series \in BarSeries
    /\ data = series
    /\ trace = <<>>

\* the bar at which the next scan evaluates
NextBar == MinBars + Len(trace)

\* process_stock on the history up to bar NextBar, with the default range
ScanAtBar(strategies_) ==
    /\ NextBar <= len(series)
    /\ AfterProcessStock(<<strategies_, 10, 500>>,
          process_stock(1, Returns(head(series, NextBar)), strategies_,
                        10, 500))
    /\ UNCHANGED <<scan, series>>

NextBars == \E strategies_ \in { <<"S3">>, <<"S8", "S3">> } : ScanAtBar(strategies_)

SpecBars == InitBars /\ [][NextBars]_vars

----------------------------------------------------------------------------
(* Properties *)

Finished(k) == k \in 1..Len(futures) /\ futures[k].state = "finished"

\* what yf.download did for task k, once the task has ended
Fetch(k) == fetched[k][1]

FetchRaised(k) == Fetch(k).raises

\* the fetch failed, returned no data or returned fewer than 35 bars
FetchUnusable(k) ==
    \/ Fetch(k).raises
    \/ Fetch(k).data.index < 35

\* task k raised: in the fetch, or on a frame without a Close column
TaskRaised(k) ==
    \/ Fetch(k).raises
    \/ /\ Fetch(k).data.index >= 35
       /\ "Close" \notin DOMAIN Fetch(k).data.cols

Raisers == { k \in 1..N : Finished(k) /\ TaskRaised(k) }

Symbols(recs) == [p \in 1..Len(recs) |-> recs[p].symbol]

RecordsOf(s) == { p \in 1..Len(results) : results[p].symbol = s }

\* C1: the reported processed count is monotonically increasing, advances
\* exactly once per symbol (the counts reported are 1, 2, ..., each once,
\* one per future collected) and equals N when the scan has finished.
C1_ProgressOncePerSymbol ==
    /\ reported = [c \in 1..Len(reported) |-> c]
    /\ Len(reported) = i
    /\ progress = i
    /\ i <= N
    /\ pc = "done" => progress = N

\* a finished scan of two symbols, one raising and one matching
C1_Witness ==
    /\ pc = "done"
    /\ N >= 2
    /\ progress = N
    /\ \E k \in 1..N : TaskRaised(k)
    /\ results # <<>>

\* the records of tasks k..N, a raising task counted as an excluded one
RECURSIVE ExpectedFrom(_)
ExpectedFrom(k) ==
    IF k > N THEN <<>>
    ELSE process_stock(stock_targets[k],
                       IF TaskRaised(k) THEN Returns(EmptyFrame)
                       ELSE Fetch(k),
                       strategies, price_range[1], price_range[2]).ret
         \o ExpectedFrom(k + 1)

\* C2: when exactly one symbol's task raises, no exception leaves the scan,
\* and the finished scan has processed count N and exactly the records it
\* would have had with that symbol excluded.
C2_OneErrorIsolated ==
    Cardinality(Raisers) = 1 =>
        /\ pc # "raised"
        /\ \A k \in 1..Len(futures) : ~futures[k].exc
        /\ pc = "done" => progress = N /\ results = ExpectedFrom(1)

\* a finished scan in which one task raised on its frame and another matched
C2_Witness ==
    /\ pc = "done"
    /\ Cardinality(Raisers) = 1
    /\ \E k \in Raisers : ~FetchRaised(k)
    /\ results # <<>>

\* C3: a symbol whose fetch fails, returns no data or returns fewer than 35
\* bars yields no record and no error; when every fetch is like that the
\* finished scan has zero records and processed count N.
C3_FailedFetchExcluded ==
    /\ \A k \in 1..N : Finished(k) /\ FetchUnusable(k) =>
          /\ futures[k].result = None
          /\ ~futures[k].exc
          /\ RecordsOf(stock_targets[k]) = {}
    /\ pc = "done" /\ (\A k \in 1..N : FetchUnusable(k)) =>
          results = <<>> /\ progress = N

\* a finished scan of two symbols: one fetch raised, one returned 34 bars
C3_Witness ==
    /\ pc = "done"
    /\ N >= 2
    /\ \A k \in 1..N : FetchUnusable(k)
    /\ \E k \in 1..N : FetchRaised(k)
    /\ \E k \in 1..N : ~FetchRaised(k) /\ Fetch(k).data.index = 34

\* C4: at most max_workers tasks are in flight, and one task is dispatched
\* per symbol: the futures are those of the symbols, in universe order.
C4_BoundedInFlight ==
    /\ Cardinality(Running) <= max_workers
    /\ Len(futures) <= N
    /\ \A k \in 1..Len(futures) : futures[k].stock = stock_targets[k]
    /\ pc \in {"collect", "done"} => Len(futures) = N

\* the pool is full and a task waits in the queue
C4_Witness ==
    /\ Cardinality(Running) = max_workers
    /\ \E k \in 1..Len(futures) : futures[k].state = "pending"

\* C5: results and the progress count are written by the collecting loop
\* alone: a step in which a task starts or ends leaves them as they are,
\* and a step that changes them is one turn of the loop.
C5_SingleWriter ==
    [][ /\ (\E k \in 1..Len(futures) : futures'[k] # futures[k]) =>
             results' = results /\ progress' = progress /\ reported' = reported
        /\ (results' # results \/ progress' # progress
               \/ reported' # reported) =>
             pc = "collect" /\ pc' = "collect" /\ i' = i + 1
               /\ futures' = futures ]_vars

\* a task has returned a record that is not yet in results, another runs
C5_Witness ==
    /\ results = <<>>
    /\ \E k \in 1..Len(futures) : Finished(k) /\ futures[k].result # None
    /\ Running # {}

\* the position of a symbol in the universe subset
Pos(s) == CHOOSE k \in 1..N : stock_targets[k] = s

\* C6 as claimed: the records are in the order in which their tasks ended
C6_CompletionOrder ==
    pc = "done" =>
        Symbols(results) = [p \in 1..Len(completed) |->
                               stock_targets[completed[p]]]

\* C6, amended: the records are in submission order, whatever the order
\* in which the tasks ended: a record of a symbol submitted earlier comes
\* first.
C6_SubmissionOrder ==
    \A p, q \in 1..Len(results) :
        p < q => Pos(results[p].symbol) < Pos(results[q].symbol)

\* two records, the task of the second symbol having ended first
C6_Witness ==
    /\ pc = "done"
    /\ Len(results) = 2
    /\ completed[1] > completed[2]

\* C7 as claimed: with an empty strategy list or an inverted price range no
\* task is dispatched and no fetch is issued
C7_MalformedRequestRejected ==
    (strategies = <<>> \/ price_range[1] > price_range[2]) =>
        /\ futures = <<>>
        /\ \A k \in 1..N : fetched[k] = <<>>

\* the rules of S8 and S3 read off the columns of a frame with indicators
RuleS8(df) ==
    LET t == df.index IN
    /\ RGt(df.cols.MACD[t], df.cols.MACD[t - 1])
    /\ RGt(df.cols.MACD[t - 1], df.cols.MACD[t - 2])
    /\ RGt(df.cols.MACD[t], df.cols.Signal[t])
    /\ RGt(df.cols.Hist[t], FromInt(0))

RuleS3(df) ==
    LET t == df.index IN
    /\ GtBand(df.cols.Close[t], df.cols.Upper[t])
    /\ ~GtBand(df.cols.Close[t - 1], df.cols.Upper[t - 1])

\* the fetch of task k returned at least 35 bars whose last close is in
\* the price range
InRange(k) ==
    /\ ~Fetch(k).raises
    /\ Fetch(k).data.index >= 35
    /\ "Close" \in DOMAIN Fetch(k).data.cols
    /\ price_range[1] <= Fetch(k).data.cols.Close[Fetch(k).data.index]
    /\ Fetch(k).data.cols.Close[Fetch(k).data.index] <= price_range[2]

Qualifies(k) ==
    /\ InRange(k)
    /\ \/ InList("S8", strategies) /\ RuleS8(frames[k][1])
       \/ InList("S3", strategies) /\ RuleS3(frames[k][1])

\* C8: the finished scan holds at most one record per symbol, and one if
\* and only if the fetch returned at least 35 bars, the last close is in
\* [min, max] and a requested strategy matched; every record is that of a
\* symbol of the universe subset and has a non-empty matched list.
C8_RecordIffQualifies ==
    pc = "done" =>
        /\ \A k \in 1..N :
              /\ Cardinality(RecordsOf(stock_targets[k])) <= 1
              /\ RecordsOf(stock_targets[k]) # {} <=> Qualifies(k)
        /\ \A p \in 1..Len(results) :
              /\ \E k \in 1..N : stock_targets[k] = results[p].symbol
              /\ results[p].matches # <<>>

\* a finished scan with a record for one symbol and none for another whose
\* close is in the range
C8_Witness ==
    /\ pc = "done"
    /\ \E k \in 1..N : Qualifies(k)
    /\ \E k \in 1..N : InRange(k) /\ ~Qualifies(k)

\* C9: a scan that has started finishes: every task ends, every future is
\* collected and the scan is complete.
C9_ScanTerminates ==
    (pc = "submit") ~>
        (/\ pc = "done"
         /\ i = N
         /\ \A k \in 1..N : Finished(k))

\* a finished scan of more symbols than the pool has workers
C9_Witness ==
    /\ pc = "done"
    /\ N > max_workers
    /\ i = N

\* the matched list of task k (empty when the task returned None)
Matches(k) ==
    IF futures[k].result = None THEN <<>> ELSE futures[k].result[1].matches

\* check_strategies was called in task k
Evaluated(k) == Finished(k) /\ InRange(k)

\* C10: with S8 requested, the S8 label is reported if and only if
\* MACD[t] > MACD[t-1] > MACD[t-2], MACD[t] > Signal[t] and Hist[t] > 0;
\* it is never reported when Hist[t] <= 0.
C10_S8Rule ==
    \A k \in 1..N : Evaluated(k) /\ InList("S8", strategies) =>
        /\ InList(LabelS8, Matches(k)) <=> RuleS8(frames[k][1])
        /\ ~RGt(frames[k][1].cols.Hist[frames[k][1].index], FromInt(0))
              => ~InList(LabelS8, Matches(k))

\* S8 is requested, MACD rose over the last three bars, the histogram is
\* not positive, and S8 is not reported
C10_Witness ==
    \E k \in 1..N :
        /\ Evaluated(k)
        /\ InList("S8", strategies)
        /\ CondS8_slope_only(iloc(frames[k][1], -1), iloc(frames[k][1], -2),
                             iloc(frames[k][1], -3))
        /\ ~RGt(frames[k][1].cols.Hist[frames[k][1].index], FromInt(0))
        /\ ~InList(LabelS8, Matches(k))

\* the close of bar t of the history is above the upper band of bar t
AboveUpper(t) ==
    LET Close == series.cols.Close
    IN GtBand(Close[t],
              Band(rolling_mean(Close, 20)[t], 2, rolling_var(Close, 20)[t]))

\* the scan at bar MinBars + j - 1 matched S3
MatchedS3At(j) ==
    /\ trace[j].ret # None
    /\ InList(LabelS3, trace[j].ret[1].matches)

BarOf(j) == MinBars + j - 1

\* C11: evaluated at successive bars, S3 matches at a bar whose close is
\* above the upper band while the close of the bar before was at or below
\* its band (the first bar of a run above the band), and at no later bar of
\* the same run.
C11_FreshBreachOnly ==
    \A j \in 1..Len(trace) :
       /\ (AboveUpper(BarOf(j)) /\ ~AboveUpper(BarOf(j) - 1)) => MatchedS3At(j)
       /\ (AboveUpper(BarOf(j)) /\ AboveUpper(BarOf(j) - 1)) => ~MatchedS3At(j)

\* S3 matched at the first bar of a run and not at the next bar of the run
C11_Witness ==
    \E j \in 1..(Len(trace) - 1) :
       /\ AboveUpper(BarOf(j)) /\ ~AboveUpper(BarOf(j) - 1)
       /\ MatchedS3At(j)
       /\ AboveUpper(BarOf(j + 1))
       /\ ~MatchedS3At(j + 1)

DerivedFields == {"SMA15", "SMA20", "Upper", "Lower", "MACD", "Signal", "Hist"}

\* field c of frame df holds a number at bar t (t = index + 1)
IsDefined(df, c, t) ==
    IF c \in {"Upper", "Lower"}
      THEN ~BandIsNaN(df.cols[c][t])
      ELSE ~IsNaN(df.cols[c][t])

\* calculate_indicators was called and returned a frame
IndicatorsReturned ==
    /\ trace # <<>>
    /\ trace[1].fn = "calculate_indicators"
    /\ trace[1].ret # None

\* the first bar (t = index + 1) at which rolling(15), rolling(20) and
\* ewm(adjust=False) give a number
FirstDefined(c) ==
    IF c = "SMA15" THEN 15
    ELSE IF c \in {"SMA20", "Upper", "Lower"} THEN 20
    ELSE 1

\* C12 as claimed: for a PriceSeries of length >= 35 every derived field is
\* defined at every bar with index >= 34 and undefined at every bar with
\* index < 34.
C12_UndefinedBeforeIndex34 ==
    IndicatorsReturned =>
        \A c \in DerivedFields : \A t \in 1..len(trace[1].ret[1]) :
            IsDefined(trace[1].ret[1], c, t) <=> t - 1 >= 34

\* C12: for a PriceSeries of length >= 35 every derived field is defined at
\* every bar with index >= 34; before that, SMA15 is undefined exactly at
\* the indices below 14, SMA20, Upper and Lower exactly at the indices below
\* 19, and MACD, Signal and Hist are defined at every bar from index 0.
C12_DefinedFromWindow ==
    IndicatorsReturned =>
        /\ DerivedFields \subseteq DOMAIN trace[1].ret[1].cols
        /\ \A c \in DerivedFields : \A t \in 1..len(trace[1].ret[1]) :
              /\ IsDefined(trace[1].ret[1], c, t) <=> t >= FirstDefined(c)
              /\ t - 1 >= 34 => IsDefined(trace[1].ret[1], c, t)

\* indicators of a frame of more than 35 bars: SMA15 is a number at index 14
\* and undefined at index 13, MACD is a number at index 0
C12_Witness ==
    /\ IndicatorsReturned
    /\ len(trace[1].ret[1]) > MinBars
    /\ IsDefined(trace[1].ret[1], "SMA15", 15)
    /\ ~IsDefined(trace[1].ret[1], "SMA15", 14)
    /\ IsDefined(trace[1].ret[1], "MACD", 1)

\* calculate_indicators was called
IndicatorsCalled ==
    /\ trace # <<>>
    /\ trace[1].fn = "calculate_indicators"

\* C13: on a PriceSeries of fewer than 35 bars calculate_indicators returns
\* None and computes nothing: the frame it was given has no derived field
\* and is as the provider produced it.
C13_ShortSeriesUntouched ==
    IndicatorsCalled /\ len(series) < 35 =>
        /\ trace[1].ret = None
        /\ DerivedFields \cap DOMAIN data.cols = {}
        /\ data = series

\* calculate_indicators returned None for a frame of 34 bars
C13_Witness ==
    /\ IndicatorsCalled
    /\ len(series) = 34
    /\ trace[1].ret = None

\* process_stock was called on a frame of at least 35 bars
ProcessStockCalled ==
    /\ trace # <<>>
    /\ trace[1].fn = "process_stock"
    /\ len(series) >= 35

\* the most recent close of the frame the provider produced
LastClose == series.cols.Close[len(series)]

\* C14: the price filter compares the most recent close with inclusive
\* bounds: a symbol whose last close is min_p <= close <= max_p (equality
\* included) passes the filter, its indicators are computed and it is
\* returned exactly when a requested strategy matches; a symbol whose last
\* close is below min_p or above max_p is excluded, whatever the strategies
\* would say, and its indicators are not computed.
C14_InclusivePriceFilter ==
    ProcessStockCalled =>
        IF trace[1].args[2] <= LastClose /\ LastClose <= trace[1].args[3]
          THEN /\ DerivedFields \subseteq DOMAIN data.cols
               /\ trace[1].ret # None
                    <=> check_strategies(data, trace[1].args[1]) # <<>>
               /\ trace[1].ret # None => trace[1].ret[1].price = LastClose
          ELSE /\ trace[1].ret = None
               /\ data = series

\* a symbol whose last close equals min_p exactly is returned
C14_Witness ==
    /\ ProcessStockCalled
    /\ LastClose = trace[1].args[2]
    /\ trace[1].ret # None

CheckCalls == { j \in 1..Len(trace) : trace[j].fn = "check_strategies" }

\* the set of identifiers of a strategies argument
Requested(j) == { trace[j].args[1][k] : k \in 1..Len(trace[j].args[1]) }

\* C16: for one IndicatorSeries, two calls of check_strategies with the same
\* set of requested identifiers return the same list, whatever the order of
\* the identifiers; every returned list holds each label at most once and
\* only labels of requested strategies.
C16_OrderIndependent ==
    /\ \A j, k \in CheckCalls :
          Requested(j) = Requested(k) => trace[j].ret = trace[k].ret
    /\ \A j \in CheckCalls :
          /\ \A p, q \in 1..Len(trace[j].ret) :
                trace[j].ret[p] = trace[j].ret[q] => p = q
          /\ \A p \in 1..Len(trace[j].ret) :
                \/ trace[j].ret[p] = LabelS8 /\ "S8" \in Requested(j)
                \/ trace[j].ret[p] = LabelS3 /\ "S3" \in Requested(j)

\* S8 then S3 and S3 then S8 requested on one frame: both calls return both
\* labels
C16_Witness ==
    \E j, k \in CheckCalls :
        /\ trace[j].args[1] = <<"S8", "S3">>
        /\ trace[k].args[1] = <<"S3", "S8">>
        /\ InList(LabelS8, trace[j].ret)
        /\ InList(LabelS3, trace[j].ret)
        /\ trace[k].ret = trace[j].ret

\* the calls whose strategies argument names a strategy other than S8 and
\* S3, the two that app.py has a rule for
UnimplementedCalls ==
    { j \in 1..Len(trace) :
        /\ trace[j].fn \in {"check_strategies", "process_stock"}
        /\ \E k \in 1..Len(trace[j].args[1]) :
              trace[j].args[1][k] \notin {"S8", "S3"} }

FinishedTasks == { k \in 1..Len(futures) : Finished(k) }

\* C18: the loop takes the futures in submission order: when the processed
\* count is k, the first k submitted tasks have all ended, and the count
\* never exceeds the number of tasks that have ended.
C18_CountedTasksHaveEnded ==
    /\ \A k \in 1..progress : Finished(k)
    /\ \A c \in 1..Len(reported) : \A k \in 1..reported[c] : Finished(k)
    /\ progress <= Cardinality(FinishedTasks)

\* the count stays below the number of ended tasks: the second task has
\* ended, the first has not, and nothing is counted
C18_Witness ==
    /\ pc = "collect"
    /\ progress = 0
    /\ Len(futures) >= 2
    /\ Finished(2)
    /\ ~Finished(1)

\* the symbols collected so far that have a record, in universe order
QualifyingSoFar ==
    LET has(s) == Qualifies(Pos(s))
    IN  SelectSeq(SubSeq(stock_targets, 1, i), has)

\* C19: whatever the order in which the tasks end, the records are those of
\* the qualifying symbols in the order of the universe subset (a
\* subsequence of the submission order), so the list is determined by the
\* inputs and the outcomes of the symbols alone.
C19_SubsequenceOfSubmission ==
    Symbols(results) = QualifyingSoFar

\* a finished scan of two symbols with different matched lists whose tasks
\* ended in the reverse of the submission order
C19_Witness ==
    /\ pc = "done"
    /\ completed = <<2, 1>>
    /\ Symbols(results) = stock_targets
    /\ results[1].matches # results[2].matches

============================================================================
